---- MODULE Spec2Model ----
(***************************************************************************)
(* Model of create_dark_panels.py: the script that lists ./res, and for    *)
(* every "*.svg" entry that is not a "*-dark.svg" entry reads it, applies  *)
(* the word_replacements table with str.replace and writes the result to   *)
(* the name obtained by filename.replace(".svg", "-dark.svg").             *)
(*                                                                         *)
(* Text (file names and file contents) is a sequence of one-character      *)
(* strings, so that endswith and replace are computed, not assumed.        *)
(***************************************************************************)
EXTENDS Naturals, Sequences, FiniteSets

VARIABLES
  fs,             \* the directory ./res: a function  name -> contents
  pc,             \* position of the script: "list", "loop", "write", "done"
                  \* (interleaved: "parlist", "par"; mapping loop alone: "map")
  todo,           \* entries of os.listdir's result the for loop has not reached yet
  filename,       \* the loop variable of line 15
  file_contents,  \* the local of lines 19 and 23
  outcome,        \* "running", "exit0" (fell off the end) or "raised" (uncaught exception)
  failed,         \* the path whose I/O call raised in this run, <<>> when none did
  reads,          \* names opened with "r" in this run
  writes,         \* names opened with "w" in this run
  fs0,            \* the directory when this run started
  runs,           \* number of invocations of the script so far
  prevEnd,        \* the directory when the previous run ended
  prevOutcome,    \* outcome of the previous run, "none" before the second run
  inflight,       \* interleaved execution: name -> contents read and not yet written
  src,            \* mapping loop alone: the text the loop started from
  k               \* mapping loop alone: number of table entries already applied

vars == <<fs, pc, todo, filename, file_contents, outcome, failed, reads, writes,
          fs0, runs, prevEnd, prevOutcome, inflight, src, k>>

---------------------------------------------------------------------------
(* Bounds of the model *)

\* at most this many files in ./res before the first run
MaxFiles == 3
\* at most this many invocations of the script
MaxRuns == 2
\* contents given to the mapping loop are made of at most this many pieces
MaxPieces == 3

---------------------------------------------------------------------------
(* Text helpers: Python's str.endswith and str.replace *)

\* s.endswith(suffix)
EndsWith(s, suffix) ==
  /\ Len(s) >= Len(suffix)
  /\ SubSeq(s, Len(s) - Len(suffix) + 1, Len(s)) = suffix

\* s.startswith(prefix)
StartsWith(s, prefix) ==
  /\ Len(s) >= Len(prefix)
  /\ SubSeq(s, 1, Len(prefix)) = prefix

\* a plausible slip: only the first occurrence is replaced (str.replace(old, new, 1))
RECURSIVE ReplaceFirstOnly(_, _, _)
ReplaceFirstOnly(s, old, new) ==
  IF Len(s) < Len(old) THEN s
  ELSE IF StartsWith(s, old)
       THEN new \o SubSeq(s, Len(old) + 1, Len(s))
       ELSE <<Head(s)>> \o ReplaceFirstOnly(Tail(s), old, new)

\* s.replace(old, new) for a non-empty old: every non-overlapping occurrence,
\* found left to right, is replaced; the scan resumes after the occurrence
RECURSIVE Replace(_, _, _)
Replace(s, old, new) ==
  IF Len(s) < Len(old) THEN s
  ELSE IF StartsWith(s, old)
       THEN new \o Replace(SubSeq(s, Len(old) + 1, Len(s)), old, new)
       ELSE <<Head(s)>> \o Replace(Tail(s), old, new)

---------------------------------------------------------------------------
(* The constants of the script *)

Svg == <<".", "s", "v", "g">>
DarkSvg == <<"-", "d", "a", "r", "k", ".", "s", "v", "g">>

C909090 == <<"#", "9", "0", "9", "0", "9", "0">>
C252626 == <<"#", "2", "5", "2", "6", "2", "6">>
Cab5b87 == <<"#", "a", "b", "5", "b", "8", "7">>
C79305a == <<"#", "7", "9", "3", "0", "5", "a">>
Cecedf1 == <<"#", "e", "c", "e", "d", "f", "1">>
Cf7c5ad == <<"#", "f", "7", "c", "5", "a", "d">>
Cfff == <<"#", "f", "f", "f">>

\* a table in which an entry's new text is a later entry's old text
word_replacements_chained ==
  << <<C909090, C252626>>, <<Cab5b87, C79305a>>, <<Cecedf1, Cfff>>, <<Cfff, Cf7c5ad>> >>

\* the dict of lines 4-9, in insertion order (the order .items() yields)
word_replacements ==
  << <<C909090, C252626>>, <<Cab5b87, C79305a>>, <<Cecedf1, Cf7c5ad>>, <<Cfff, Cf7c5ad>> >>

res_directory == <<".", "/", "r", "e", "s">>

---------------------------------------------------------------------------
(* The pure parts of the loop body *)

\* a plausible slip: the "-dark.svg" exclusion is missing
IsEligibleNoExclusion(name) == EndsWith(name, Svg)

\* the condition of line 16
IsEligible(name) == EndsWith(name, Svg) /\ ~EndsWith(name, DarkSvg)

\* the part of name before its first "."
RECURSIVE BeforeFirstDot(_)
BeforeFirstDot(name) ==
  IF name = <<>> \/ Head(name) = "." THEN <<>>
  ELSE <<Head(name)>> \o BeforeFirstDot(Tail(name))

\* a plausible slip: the stem is cut at the first "." (name.split(".")[0] + "-dark.svg")
NewFilenameFirstDot(name) == BeforeFirstDot(name) \o DarkSvg

\* line 26: filename.replace(".svg", "-dark.svg")
NewFilename(name) == Replace(name, Svg, DarkSvg)

\* the first n entries of the table applied in order, each to the result of the one before
RECURSIVE ApplyFirst(_, _, _)
ApplyFirst(text, table, n) ==
  IF n = 0 THEN text
  ELSE Replace(ApplyFirst(text, table, n - 1), table[n][1], table[n][2])

\* lines 22-23: the whole replacement loop
ApplyMapping(text) == ApplyFirst(text, word_replacements, Len(word_replacements))

---------------------------------------------------------------------------
(* The directories and texts the runs start from *)

NameA == <<"a">>
NameB == <<"b">>
Png == <<".", "p", "n", "g">>

\* names a directory may hold before the first run: plain panels, a panel's
\* dark variant, a name with ".svg" before the end, a dark name no panel
\* maps to, and a file that is no SVG
FileNames ==
  { NameA \o Svg,                      \* a.svg
    NameB \o Svg,                      \* b.svg
    NameA \o DarkSvg,                  \* a-dark.svg
    NameA \o Svg \o Svg,               \* a.svg.svg
    NameA \o Svg \o DarkSvg,           \* a.svg-dark.svg
    NameA \o Png }                     \* a.png

\* contents a file may have before the first run
FileTexts == { Cfff, <<"x">> \o C909090 }

\* the directories with at most MaxFiles files
Directories ==
  UNION { [D -> FileTexts] :
          D \in { X \in SUBSET FileNames : Cardinality(X) <= MaxFiles } }

\* the directory d after open(name, "w") ... write(data) succeeded
Put(d, name, data) ==
  [n \in DOMAIN d \cup {name} |-> IF n = name THEN data ELSE d[n]]

\* os.path.join(res_directory, name)
PathOf(name) == res_directory \o <<"/">> \o name

NoFile == <<>>

---------------------------------------------------------------------------
(* The script, one file at a time (lines 15-28) *)

Init ==
  /\ fs \in Directories
  /\ pc = "list"
  /\ todo = {}
  /\ filename = NoFile
  /\ file_contents = <<>>
  /\ outcome = "running"
  /\ failed = NoFile
  /\ reads = {}
  /\ writes = {}
  /\ fs0 = fs
  /\ runs = 1
  /\ prevEnd = fs
  /\ prevOutcome = "none"
  /\ inflight = <<>>
  /\ src = <<>>
  /\ k = 0

\* a plausible slip: the failure of os.listdir is caught and the run goes on
\* as if the directory were empty
ListDirFailSwallowed ==
  /\ pc = "list"
  /\ failed' = res_directory
  /\ todo' = {}
  /\ pc' = "loop"
  /\ UNCHANGED <<fs, filename, file_contents, outcome, reads, writes, fs0, runs,
                 prevEnd, prevOutcome, inflight, src, k>>

\* line 15: os.listdir(res_directory) raises (directory missing or not listable);
\* nothing catches it, the script ends
ListDirFail ==
  /\ pc = "list"
  /\ failed' = res_directory
  /\ outcome' = "raised"
  /\ pc' = "done"
  /\ UNCHANGED <<fs, todo, filename, file_contents, reads, writes, fs0, runs,
                 prevEnd, prevOutcome, inflight, src, k>>

\* line 15: os.listdir(res_directory) returns the entries, in no particular order
ListDir ==
  /\ pc = "list"
  /\ todo' = DOMAIN fs
  /\ pc' = "loop"
  /\ UNCHANGED <<fs, filename, file_contents, outcome, failed, reads, writes, fs0,
                 runs, prevEnd, prevOutcome, inflight, src, k>>

\* lines 15-16: the loop reaches an entry that fails the test of line 16
Skip(f) ==
  /\ pc = "loop"
  /\ f \in todo
  /\ ~IsEligible(f)
  /\ filename' = f
  /\ todo' = todo \ {f}
  /\ UNCHANGED <<fs, pc, file_contents, outcome, failed, reads, writes, fs0, runs,
                 prevEnd, prevOutcome, inflight, src, k>>

\* lines 15-19: the loop reaches an entry that passes the test; it is read
Read(f) ==
  /\ pc = "loop"
  /\ f \in todo
  /\ IsEligible(f)
  /\ filename' = f
  /\ todo' = todo \ {f}
  /\ file_contents' = fs[f]
  /\ reads' = reads \cup {f}
  /\ pc' = "write"
  /\ UNCHANGED <<fs, outcome, failed, writes, fs0, runs, prevEnd, prevOutcome,
                 inflight, src, k>>

\* a plausible slip: the failure is caught per file and the loop goes on
ReadFailContinue(f) ==
  /\ pc = "loop"
  /\ f \in todo
  /\ IsEligible(f)
  /\ filename' = f
  /\ todo' = todo \ {f}
  /\ failed' = PathOf(f)
  /\ UNCHANGED <<fs, pc, file_contents, outcome, reads, writes, fs0, runs, prevEnd,
                 prevOutcome, inflight, src, k>>

\* lines 18-19: open(..., "r") or read() raises; nothing catches it, the script ends
ReadFail(f) ==
  /\ pc = "loop"
  /\ f \in todo
  /\ IsEligible(f)
  /\ filename' = f
  /\ todo' = todo \ {f}
  /\ failed' = PathOf(f)
  /\ outcome' = "raised"
  /\ pc' = "done"
  /\ UNCHANGED <<fs, file_contents, reads, writes, fs0, runs, prevEnd, prevOutcome,
                 inflight, src, k>>

\* a plausible slip: the output is opened with "a", so an existing file grows
WriteAppend ==
  /\ pc = "write"
  /\ file_contents' = ApplyMapping(file_contents)
  /\ fs' = Put(fs, NewFilename(filename),
               IF NewFilename(filename) \in DOMAIN fs
               THEN fs[NewFilename(filename)] \o file_contents'
               ELSE file_contents')
  /\ writes' = writes \cup {NewFilename(filename)}
  /\ pc' = "loop"
  /\ UNCHANGED <<todo, filename, outcome, failed, reads, fs0, runs, prevEnd,
                 prevOutcome, inflight, src, k>>

\* a plausible slip: the panel is renamed to the new name instead of copied
WriteRemovingSource ==
  /\ pc = "write"
  /\ file_contents' = ApplyMapping(file_contents)
  /\ fs' = [n \in (DOMAIN fs \ {filename}) \cup {NewFilename(filename)} |->
              IF n = NewFilename(filename) THEN file_contents' ELSE fs[n]]
  /\ writes' = writes \cup {NewFilename(filename)}
  /\ pc' = "loop"
  /\ UNCHANGED <<todo, filename, outcome, failed, reads, fs0, runs, prevEnd,
                 prevOutcome, inflight, src, k>>

\* lines 22-28: the replacement loop, the new name, and the write
Write ==
  /\ pc = "write"
  /\ file_contents' = ApplyMapping(file_contents)
  /\ fs' = Put(fs, NewFilename(filename), file_contents')
  /\ writes' = writes \cup {NewFilename(filename)}
  /\ pc' = "loop"
  /\ UNCHANGED <<todo, filename, outcome, failed, reads, fs0, runs, prevEnd,
                 prevOutcome, inflight, src, k>>

\* lines 27-28: open(..., "w") raises and the directory is as before, or the
\* file was opened (and truncated) and write() or the close raises, leaving
\* some prefix of the data; nothing catches it, the script ends
WriteFail ==
  /\ pc = "write"
  /\ file_contents' = ApplyMapping(file_contents)
  /\ \/ /\ fs' = fs
        /\ writes' = writes
     \/ /\ \E n \in 0..Len(file_contents') :
             fs' = Put(fs, NewFilename(filename), SubSeq(file_contents', 1, n))
        /\ writes' = writes \cup {NewFilename(filename)}
  /\ failed' = PathOf(NewFilename(filename))
  /\ outcome' = "raised"
  /\ pc' = "done"
  /\ UNCHANGED <<todo, filename, reads, fs0, runs, prevEnd, prevOutcome, inflight,
                 src, k>>

\* the for loop is exhausted: the script falls off its end
Finish ==
  /\ pc = "loop"
  /\ todo = {}
  /\ outcome' = "exit0"
  /\ pc' = "done"
  /\ UNCHANGED <<fs, todo, filename, file_contents, failed, reads, writes, fs0, runs,
                 prevEnd, prevOutcome, inflight, src, k>>

\* the script is run again on the directory a completed run left (a run that
\* raised leaves a directory that is again one of the arbitrary directories a
\* first run starts from, up to the contents of a partly written file, which
\* no test of the script looks at)
Invoke ==
  /\ pc = "done"
  /\ outcome = "exit0"
  /\ runs < MaxRuns
  /\ runs' = runs + 1
  /\ prevEnd' = fs
  /\ prevOutcome' = outcome
  /\ fs0' = fs
  /\ pc' = "list"
  /\ todo' = {}
  /\ filename' = NoFile
  /\ file_contents' = <<>>
  /\ outcome' = "running"
  /\ failed' = NoFile
  /\ reads' = {}
  /\ writes' = {}
  /\ UNCHANGED <<fs, inflight, src, k>>

\* every name the loop can reach
Entries == DOMAIN fs

Next ==
  \/ ListDir
  \/ ListDirFail
  \/ \E f \in Entries : Skip(f)
  \/ \E f \in Entries : Read(f)
  \/ \E f \in Entries : ReadFail(f)
  \/ Write
  \/ WriteFail
  \/ Finish
  \/ Invoke

Spec == Init /\ [][Next]_vars

---------------------------------------------------------------------------
(* The loop body of lines 16-28 run for the listed entries in any order and  *)
(* with the reads and writes of different entries interleaved: every entry   *)
(* has its own filename and file_contents                                    *)

InitPar ==
  /\ fs \in Directories
  /\ pc = "parlist"
  /\ todo = {}
  /\ filename = NoFile
  /\ file_contents = <<>>
  /\ outcome = "running"
  /\ failed = NoFile
  /\ reads = {}
  /\ writes = {}
  /\ fs0 = fs
  /\ runs = 1
  /\ prevEnd = fs
  /\ prevOutcome = "none"
  /\ inflight = <<>>
  /\ src = <<>>
  /\ k = 0

\* line 15: os.listdir(res_directory)
ParListDir ==
  /\ pc = "parlist"
  /\ todo' = DOMAIN fs
  /\ pc' = "par"
  /\ UNCHANGED <<fs, filename, file_contents, outcome, failed, reads, writes, fs0,
                 runs, prevEnd, prevOutcome, inflight, src, k>>

\* line 16, test fails
ParSkip(f) ==
  /\ pc = "par"
  /\ f \in todo
  /\ ~IsEligible(f)
  /\ todo' = todo \ {f}
  /\ UNCHANGED <<fs, pc, filename, file_contents, outcome, failed, reads, writes,
                 fs0, runs, prevEnd, prevOutcome, inflight, src, k>>

\* lines 16-19 for entry f
ParRead(f) ==
  /\ pc = "par"
  /\ f \in todo
  /\ IsEligible(f)
  /\ todo' = todo \ {f}
  /\ inflight' = Put(inflight, f, fs[f])
  /\ reads' = reads \cup {f}
  /\ UNCHANGED <<fs, pc, filename, file_contents, outcome, failed, writes, fs0,
                 runs, prevEnd, prevOutcome, src, k>>

\* lines 22-28 for entry f
ParWrite(f) ==
  /\ pc = "par"
  /\ f \in DOMAIN inflight
  /\ fs' = Put(fs, NewFilename(f), ApplyMapping(inflight[f]))
  /\ writes' = writes \cup {NewFilename(f)}
  /\ inflight' = [n \in DOMAIN inflight \ {f} |-> inflight[n]]
  /\ UNCHANGED <<pc, todo, filename, file_contents, outcome, failed, reads, fs0,
                 runs, prevEnd, prevOutcome, src, k>>

\* every entry has been dealt with
ParFinish ==
  /\ pc = "par"
  /\ todo = {}
  /\ DOMAIN inflight = {}
  /\ outcome' = "exit0"
  /\ pc' = "done"
  /\ UNCHANGED <<fs, todo, filename, file_contents, failed, reads, writes, fs0,
                 runs, prevEnd, prevOutcome, inflight, src, k>>

NextPar ==
  \/ ParListDir
  \/ \E f \in Entries : ParSkip(f)
  \/ \E f \in Entries : ParRead(f)
  \/ \E f \in Entries : ParWrite(f)
  \/ ParFinish

SpecPar == InitPar /\ [][NextPar]_vars

---------------------------------------------------------------------------
(* The replacement loop of lines 22-23 alone, one table entry per step *)

\* fragments the texts are put together from: the four old colours, two of
\* the new ones, and parts of colours that complete each other
Pieces ==
  { C909090, Cab5b87, Cecedf1, Cfff, Cf7c5ad, C252626,
    <<"#">>, <<"f">>, <<"#", "9", "0">>, <<"9", "0", "9", "0">>, <<"x">> }

RECURSIVE Flatten(_)
Flatten(ss) == IF ss = <<>> THEN <<>> ELSE Head(ss) \o Flatten(Tail(ss))

\* <svg fill="#fff" stroke="#909090"/>
ScenarioA ==
  <<"<", "s", "v", "g", " ", "f", "i", "l", "l", "=", "\"">> \o Cfff
    \o <<"\"", " ", "s", "t", "r", "o", "k", "e", "=", "\"">> \o C909090
    \o <<"\"", "/", ">">>

\* <svg fill="#f7c5ad" stroke="#252626"/>
ScenarioADark ==
  <<"<", "s", "v", "g", " ", "f", "i", "l", "l", "=", "\"">> \o Cf7c5ad
    \o <<"\"", " ", "s", "t", "r", "o", "k", "e", "=", "\"">> \o C252626
    \o <<"\"", "/", ">">>

Texts ==
  { Flatten(ps) : ps \in UNION { [1..n -> Pieces] : n \in 0..MaxPieces } }
    \cup {ScenarioA}

InitMap ==
  /\ src \in Texts
  /\ file_contents = src
  /\ k = 0
  /\ pc = "map"
  /\ fs = <<>>
  /\ todo = {}
  /\ filename = NoFile
  /\ outcome = "running"
  /\ failed = NoFile
  /\ reads = {}
  /\ writes = {}
  /\ fs0 = <<>>
  /\ runs = 1
  /\ prevEnd = <<>>
  /\ prevOutcome = "none"
  /\ inflight = <<>>

\* line 23 for the next (old_word, new_word) of word_replacements.items()
ReplaceStep ==
  /\ pc = "map"
  /\ k < Len(word_replacements)
  /\ file_contents' =
       Replace(file_contents, word_replacements[k + 1][1], word_replacements[k + 1][2])
  /\ k' = k + 1
  /\ UNCHANGED <<fs, pc, todo, filename, outcome, failed, reads, writes, fs0, runs,
                 prevEnd, prevOutcome, inflight, src>>

NextMap == ReplaceStep

SpecMap == InitMap /\ [][NextMap]_vars

---------------------------------------------------------------------------
(* What the claims are stated with *)

\* the name the specification derives: only the trailing ".svg" is replaced
DeriveDarkName(name) == SubSeq(name, 1, Len(name) - Len(Svg)) \o DarkSvg

\* the eligible entries of directory d
EligibleIn(d) == { f \in DOMAIN d : IsEligible(f) }

\* the names a run over directory d writes to
OutputsOf(d) == { NewFilename(f) : f \in EligibleIn(d) }

\* number of occurrences of pat in s, counted left to right without overlap
RECURSIVE Count(_, _)
Count(s, pat) ==
  IF Len(s) < Len(pat) THEN 0
  ELSE IF StartsWith(s, pat)
       THEN 1 + Count(SubSeq(s, Len(pat) + 1, Len(s)), pat)
       ELSE Count(Tail(s), pat)

\* the entries of table whose old text starts s
MatchesAt(s, table) == { j \in 1..Len(table) : StartsWith(s, table[j][1]) }

\* all entries of table replaced at once, in one pass over the original text:
\* where an old text starts it is replaced by its new text and the pass goes
\* on behind it, every other character is copied
RECURSIVE SimReplace(_, _)
SimReplace(s, table) ==
  IF s = <<>> THEN <<>>
  ELSE IF MatchesAt(s, table) = {}
       THEN <<Head(s)>> \o SimReplace(Tail(s), table)
       ELSE LET j == CHOOSE m \in MatchesAt(s, table) :
                       \A n \in MatchesAt(s, table) : m <= n
            IN  table[j][2]
                  \o SimReplace(SubSeq(s, Len(table[j][1]) + 1, Len(s)), table)

\* the orders the entries of the table can be applied in
Orders ==
  { p \in [1..Len(word_replacements) -> 1..Len(word_replacements)] :
      \A i, j \in 1..Len(word_replacements) : i # j => p[i] # p[j] }

Reordered(p) == [i \in 1..Len(word_replacements) |-> word_replacements[p[i]]]

MappingDone == pc = "map" /\ k = Len(word_replacements)

RunCompleted == pc = "done" /\ outcome = "exit0"

\* the directory a completed run over d leaves, whatever the order
ExpectedFinal(d) ==
  [n \in DOMAIN d \cup OutputsOf(d) |->
     IF n \in OutputsOf(d)
     THEN ApplyMapping(d[CHOOSE f \in EligibleIn(d) : NewFilename(f) = n])
     ELSE d[n]]

---------------------------------------------------------------------------
(* C1 *)

\* C1 (coverage): after a run that completed without error, for every
\* eligible file f present before the run a file named derive_dark_name(f),
\* f with its trailing ".svg" replaced by "-dark.svg", exists.
C1_Coverage ==
  RunCompleted =>
    \A f \in EligibleIn(fs0) : DeriveDarkName(f) \in DOMAIN fs

---------------------------------------------------------------------------
(* C2 *)

\* C2 (exclusion): in every run, the first and the repeated ones, no name
\* ending in "-dark.svg" is read, no name ending in "-dark-dark.svg" is
\* written, only names that pass the test of line 16 are read, and when a
\* panel and its dark variant both exist before a completed run, the panel is
\* read, the dark variant is not, and the dark variant ends up holding the
\* transform of the panel.
C2_Exclusion ==
  /\ \A f \in reads : ~EndsWith(f, DarkSvg) /\ EndsWith(f, Svg)
  /\ \A w \in writes : ~EndsWith(w, <<"-", "d", "a", "r", "k">> \o DarkSvg)
  /\ RunCompleted =>
       \A f \in EligibleIn(fs0) :
         NewFilename(f) \in DOMAIN fs0 =>
           /\ f \in reads
           /\ NewFilename(f) \notin reads
           /\ fs[NewFilename(f)] = ApplyMapping(fs0[f])

\* a second run has completed over a directory that held a panel and the
\* dark variant the first run wrote for it
C2_Witness ==
  /\ RunCompleted
  /\ runs = 2
  /\ NameA \o Svg \in reads
  /\ NameA \o DarkSvg \in DOMAIN fs0
  /\ NameA \o DarkSvg \in writes

---------------------------------------------------------------------------
(* C3 *)

\* C3 (substitution): the text the replacement loop ends with, which is the
\* text written, is the text it started from with every occurrence of the
\* four old colours replaced by the respective new colour and every other
\* character unchanged and in place; the text of scenario A gives the dark
\* text of scenario A.
C3_Substitution ==
  MappingDone =>
    /\ file_contents = SimReplace(src, word_replacements)
    /\ file_contents = ApplyMapping(src)
    /\ src = ScenarioA => file_contents = ScenarioADark

\* the loop has finished on a text with two occurrences of one colour and
\* one of another
C3_Witness ==
  /\ MappingDone
  /\ Count(src, Cfff) = 2
  /\ Count(src, C909090) = 1
  /\ file_contents # src

---------------------------------------------------------------------------
(* C10 *)

\* C10 (no chaining with the fixed table): at every step of the loop the text
\* is the original with the entries applied so far replaced at once, and the
\* entries still to come occur in it exactly as often as in the original (no
\* entry matches text an earlier one introduced); every order of the four
\* entries gives the same result; the result holds none of the four old
\* colours, and the mapping applied to it changes nothing.
C10_NoChaining ==
  /\ pc = "map" =>
       /\ file_contents = SimReplace(src, SubSeq(word_replacements, 1, k))
       /\ \A j \in (k + 1)..Len(word_replacements) :
            Count(file_contents, word_replacements[j][1])
              = Count(src, word_replacements[j][1])
  /\ MappingDone =>
       /\ \A p \in Orders :
            ApplyFirst(src, Reordered(p), Len(word_replacements)) = file_contents
       /\ \A j \in 1..Len(word_replacements) :
            Count(file_contents, word_replacements[j][1]) = 0
       /\ ApplyMapping(file_contents) = file_contents

\* the loop has finished on a text that held a colour of the third and of
\* the fourth entry, whose new colours are the same
C10_Witness ==
  /\ MappingDone
  /\ Count(src, Cecedf1) > 0
  /\ Count(src, Cfff) > 0
  /\ Count(file_contents, Cf7c5ad) >= 2

---------------------------------------------------------------------------
(* C4 *)

\* C4 (idempotence): when the script is run twice in succession and both runs
\* complete, the directory after the second run is the directory after the
\* first: every dark variant has the same name and content, and the second
\* run created no file.
C4_Idempotent ==
  (RunCompleted /\ prevOutcome = "exit0") => fs = prevEnd

\* a second run has completed and has written two dark variants
C4_Witness ==
  /\ RunCompleted
  /\ runs = 2
  /\ prevOutcome = "exit0"
  /\ Cardinality(writes) >= 2

---------------------------------------------------------------------------
(* C5 *)

\* C5 (derive_dark_name): every name the run writes to is the name of a file
\* it read with only the trailing ".svg" replaced by "-dark.svg".
C5_TrailingSuffixOnly ==
  \A w \in writes : \E f \in reads : w = DeriveDarkName(f)

---------------------------------------------------------------------------
(* C6 *)

\* C6 as claimed (frame): after a run every file that was present before it
\* and whose name does not end in ".svg", or ends in "-dark.svg", is present
\* with unchanged content; with no eligible file nothing is written.
C6_IneligibleUntouched ==
  pc = "done" =>
    /\ \A f \in DOMAIN fs0 :
         ~IsEligible(f) => f \in DOMAIN fs /\ fs[f] = fs0[f]
    /\ EligibleIn(fs0) = {} => writes = {} /\ fs = fs0

\* C6 as amended (frame): at every point of a run no file has been deleted,
\* only names the run derives for the eligible files present before it have
\* been written to, and every other file present before the run, eligible or
\* not, has its content unchanged; with no eligible file nothing is written.
C6_Frame ==
  /\ DOMAIN fs0 \subseteq DOMAIN fs
  /\ writes \subseteq OutputsOf(fs0)
  /\ DOMAIN fs \subseteq DOMAIN fs0 \cup writes
  /\ \A f \in DOMAIN fs0 \ OutputsOf(fs0) : fs[f] = fs0[f]
  /\ EligibleIn(fs0) = {} => writes = {} /\ fs = fs0

\* a run has ended that overwrote an ineligible file with new content and
\* left another file ending in "-dark.svg" alone
C6_Witness ==
  /\ pc = "done"
  /\ \E f \in DOMAIN fs0 : ~IsEligible(f) /\ f \in writes /\ fs[f] # fs0[f]
  /\ \E g \in DOMAIN fs0 : EndsWith(g, DarkSvg) /\ g \notin writes /\ fs[g] = fs0[g]

---------------------------------------------------------------------------
(* C7 *)

\* a read or a write of a file raised in this run
FileFailed == failed # NoFile /\ failed # res_directory

\* C7 (a file failure aborts the batch): once the read of an eligible file or
\* the write of its dark variant has raised, the run has ended with the
\* exception; no eligible entry the loop had not reached has been read, and
\* neither it nor its dark variant has been written; the dark variants
\* of the files processed before are in place.
C7_AbortsBatch ==
  FileFailed =>
    /\ pc = "done"
    /\ outcome = "raised"
    /\ failed \in {PathOf(filename), PathOf(NewFilename(filename))}
    /\ \A f \in EligibleIn(fs0) \cap todo :
         f \notin reads /\ f \notin writes /\ NewFilename(f) \notin writes
    /\ \A f \in reads \ {filename} :
         /\ NewFilename(f) \in DOMAIN fs
         /\ fs[NewFilename(f)] = ApplyMapping(fs0[f])

\* a file failed after another had been processed and before the loop reached
\* a third eligible one
C7_Witness ==
  /\ FileFailed
  /\ reads \ {filename} # {}
  /\ EligibleIn(fs0) \cap todo # {}

---------------------------------------------------------------------------
(* C8 *)

\* C8 (directory failure is fatal before any processing): when os.listdir has
\* raised, the run has ended with the exception, no file has been read or
\* written and the directory is as it was.
C8_DirectoryFailure ==
  failed = res_directory =>
    /\ pc = "done"
    /\ outcome = "raised"
    /\ reads = {}
    /\ writes = {}
    /\ fs = fs0

\* os.listdir raised on a directory that holds an eligible file
C8_Witness ==
  /\ failed = res_directory
  /\ EligibleIn(fs0) # {}

---------------------------------------------------------------------------
(* C9 *)

\* C9 (order independence): two distinct eligible entries never derive the
\* same output name, no derived output name is eligible, no eligible file is
\* ever overwritten, and when the run has completed the directory is the one
\* determined by the directory it started from, whatever the order of the
\* entries and the interleaving of their reads and writes.
C9_OrderIndependent ==
  /\ \A f, g \in EligibleIn(fs0) : f # g => NewFilename(f) # NewFilename(g)
  /\ \A f \in EligibleIn(fs0) : ~IsEligible(NewFilename(f))
  /\ \A f \in EligibleIn(fs0) : f \in DOMAIN fs /\ fs[f] = fs0[f]
  /\ \A f \in DOMAIN inflight : inflight[f] = fs0[f]
  /\ RunCompleted => fs = ExpectedFinal(fs0)

\* a run over three eligible files, one of which had its dark variant
\* already, has completed
C9_Witness ==
  /\ RunCompleted
  /\ Cardinality(reads) >= 2
  /\ \E f \in reads : NewFilename(f) \in DOMAIN fs0
  /\ fs # fs0

====
